---- MODULE Spec2Model ----
(***************************************************************************)
(* Model of front-end/src/ui/event.rs (ytui-music): the input thread       *)
(* (event_sender) that turns key events into updates of the shared,        *)
(* mutex-protected ui::State, and the render/fetch worker it shares that   *)
(* state with.                                                             *)
(*                                                                         *)
(* The program point <<name, "lock">> of the input thread is the call of    *)
(* lock() at the head of closure name; the step from it is the closure's   *)
(* critical section, up to the point where its guard is dropped.  The      *)
(* fill_search! macro and handle_play_advance take the lock a second time, *)
(* at <<name, "lock2">>.                                                   *)
(***************************************************************************)
EXTENDS Integers, Sequences, FiniteSets, TLC

\* ------------------------------------------------------------------ bounds
MaxRows  == 2     \* rows the worker puts into a panel
MaxPage  == 2     \* largest page a request may name
MaxQuery == 2     \* longest live query typed
MaxLimit == 6     \* largest list length advance_index is applied to
MaxLen   == 3     \* longest list advance_list is applied to

\* --------------------------------------------------------------- constants
\* Positions in fetched_page / the page array of a search request.  The
\* source counts from 0, TLA+ tuples from 1.
MIDDLE_MUSIC_INDEX    == 1
MIDDLE_PLAYLIST_INDEX == 2
MIDDLE_ARTIST_INDEX   == 3
SEARCH_SH_KEY    == "/"
HELP_SH_KEY      == "?"
NEXT_SH_KEY      == "n"
PREV_SH_KEY      == "p"
QUIT_SH_KEY      == "q"
SEEK_F_KEY       == ">"
SEEK_B_KEY       == "<"
TOGGLE_PAUSE_KEY == " "
SIDEBAR_LIST_COUNT == 5

\* Option<T>: None is the empty tuple, Some(x) the one-element tuple.
None    == <<>>
Some(x) == <<x>>
Unwrap(o) == o[1]

HeadTo == {"Initial", "Next", "Prev"}

\* ------------------------------------------------------------ ui:: types
Windows == {"None", "Sidebar", "Musicbar", "Playlistbar", "Artistbar",
            "Searchbar", "Helpbar"}

\* Window::next / Window::prev: the cycle over the non-terminal windows.
WindowNext(w) ==
    CASE w = "Sidebar"     -> "Musicbar"
      [] w = "Musicbar"    -> "Playlistbar"
      [] w = "Playlistbar" -> "Artistbar"
      [] w = "Artistbar"   -> "Searchbar"
      [] w = "Searchbar"   -> "Helpbar"
      [] w = "Helpbar"     -> "Sidebar"
      [] OTHER             -> w

WindowPrev(w) ==
    CASE w = "Sidebar"     -> "Helpbar"
      [] w = "Musicbar"    -> "Sidebar"
      [] w = "Playlistbar" -> "Musicbar"
      [] w = "Artistbar"   -> "Playlistbar"
      [] w = "Searchbar"   -> "Artistbar"
      [] w = "Helpbar"     -> "Searchbar"
      [] OTHER             -> w

\* SidebarOption::try_from(usize)
SidebarOptionOf(i) ==
    CASE i = 0 -> "Trending"
      [] i = 1 -> "YoutubeCommunity"
      [] i = 2 -> "RecentlyPlayed"
      [] i = 3 -> "Favourates"
      [] i = 4 -> "Search"
      [] OTHER -> "None"

\* A source tag: MusicbarSource / PlaylistbarSource / ArtistbarSource.  id is
\* the payload of Playlist(id) and Artist(id), 0 for the other variants.
Src(t)       == [t |-> t, id |-> 0]
SrcOf(t, i)  == [t |-> t, id |-> i]

\* FillFetch
FetchNone           == [t |-> "None",     page |-> 0, query |-> <<>>, pages |-> <<None, None, None>>]
FetchTrending(p)    == [t |-> "Trending", page |-> p, query |-> <<>>, pages |-> <<None, None, None>>]
FetchPlaylist       == [t |-> "Playlist", page |-> 0, query |-> <<>>, pages |-> <<None, None, None>>]
FetchSearch(q, pgs) == [t |-> "Search",   page |-> 0, query |-> q,    pages |-> pgs]

\* ------------------------------------------------------- pure functions
\* usize arithmetic: checked_sub(1) on 0 is None.
CheckedSub1(n) == IF n = 0 THEN None ELSE Some(n - 1)

\* An index step whose Prev stops at 0 instead of wrapping.
advance_index_saturating(current, limit, direction) ==
    CASE direction = "Next" -> (current + 1) % limit
      [] direction = "Prev" -> (IF current = 0 THEN 0 ELSE current - 1) % limit
      [] OTHER -> current

advance_index(current, limit, direction) ==
    CASE direction = "Next" -> (current + 1) % limit
      [] direction = "Prev" ->
            (IF CheckedSub1(current) = None THEN limit - 1
                                            ELSE Unwrap(CheckedSub1(current))) % limit
      [] OTHER -> current

\* VecDeque::rotate_left(1) / rotate_right(1) on a non-empty list.
RotateLeft(l)  == Append(Tail(l), Head(l))
RotateRight(l) == <<l[Len(l)]>> \o SubSeq(l, 1, Len(l) - 1)

\* An advance_list without the is_empty check.
advance_list_unguarded(list, direction) ==
    CASE direction = "Next" ->
             [ok |-> TRUE, list |-> IF list = <<>> THEN list ELSE RotateLeft(list)]
      [] direction = "Prev" ->
             [ok |-> TRUE, list |-> IF list = <<>> THEN list ELSE RotateRight(list)]
      [] OTHER -> [ok |-> FALSE, list |-> list]

\* advance_list returns (changed, list).
advance_list(list, direction) ==
    IF list = <<>> THEN [ok |-> FALSE, list |-> list]
    ELSE CASE direction = "Next" -> [ok |-> TRUE,  list |-> RotateLeft(list)]
           [] direction = "Prev" -> [ok |-> TRUE,  list |-> RotateRight(list)]
           [] OTHER              -> [ok |-> FALSE, list |-> list]

\* get_page with prev - 1 in place of checked_sub(1).unwrap_or_default().
get_page_unchecked(current, direction) ==
    IF current = None THEN 0
    ELSE CASE direction = "Initial" -> 0
           [] direction = "Next"    -> Unwrap(current) + 1
           [] OTHER -> Unwrap(current) - 1

get_page(current, direction) ==
    IF current = None THEN 0
    ELSE CASE direction = "Initial" -> 0
           [] direction = "Next"    -> Unwrap(current) + 1
           [] OTHER -> IF CheckedSub1(Unwrap(current)) = None
                       THEN 0 ELSE Unwrap(CheckedSub1(Unwrap(current)))

\* str::trim on a query, a sequence of characters.
IsWhitespace(c) == c = " "

\* t is s without its leading and trailing whitespace.
IsTrimOf(t, s) ==
    \E i, j \in 0 .. Len(s) :
        /\ i + j <= Len(s)
        /\ t = SubSeq(s, i + 1, Len(s) - j)
        /\ \A k \in 1 .. i : IsWhitespace(s[k])
        /\ \A k \in (Len(s) - j + 1) .. Len(s) : IsWhitespace(s[k])
        /\ t # <<>> => ~IsWhitespace(t[1]) /\ ~IsWhitespace(t[Len(t)])

RECURSIVE TrimStart(_)
TrimStart(s) ==
    IF s = <<>> THEN s
    ELSE IF IsWhitespace(Head(s)) THEN TrimStart(Tail(s)) ELSE s

RECURSIVE TrimEnd(_)
TrimEnd(s) ==
    IF s = <<>> THEN s
    ELSE IF IsWhitespace(s[Len(s)]) THEN TrimEnd(SubSeq(s, 1, Len(s) - 1)) ELSE s

TrimLeadingOnly(s) == TrimStart(s)
Trim(s) == TrimEnd(TrimStart(s))

\* ------------------------------------------------------------------ state
VARIABLES
    state,      \* ui::State behind the Mutex (Arc<Mutex<ui::State>>)
    lock,       \* holder of the Mutex: "free", "input" or "worker"
    poisoned,   \* the Mutex is poisoned (a holder panicked)
    pc,         \* program point of the input thread
    key,        \* the event being handled
    dir,        \* the HeadTo argument of the closure being run
    pre,        \* ui::State when the event was read
    notified,   \* notify_all calls made while handling the event
    backend     \* calls made on the music list and the player while handling
                \* the event, each with the front row it left or played

vars == <<state, lock, poisoned, pc, key, dir, pre, notified, backend>>

Ids == 1 .. MaxRows
Row(i) == [id |-> i]
\* The rows a fetch puts into a panel: rows with ids 1 .. n.
FetchedRows(n) == [i \in 1 .. n |-> Row(i)]

NoKey  == [code |-> "-", ch |-> "", ctrl |-> FALSE]
NoPre  == [t |-> "-"]

\* ui::State::default()
InitState ==
    [ active        |-> "Sidebar",
      sidebar       |-> Some(0),
      musicbar      |-> <<>>,
      playlistbar   |-> <<>>,
      artistbar     |-> <<>>,
      filled_source |-> <<Src("RecentlyPlayed"), Src("RecentlyPlayed"), Src("RecentlyPlayed")>>,
      fetched_page  |-> <<None, None, None>>,
      search        |-> << <<>>, <<>> >>,
      to_fetch      |-> FetchNone,
      help          |-> "Press ?" ]

Init ==
    /\ state = InitState
    /\ lock = "free"
    /\ poisoned = FALSE
    /\ pc = <<"poll", "-">>
    /\ key = NoKey
    /\ dir = "Initial"
    /\ pre = NoPre
    /\ notified = 0
    /\ backend = <<>>

\* ----------------------------------------------------------------- helpers
At(name, stage) == pc = <<name, stage>>
Call(name)      == pc' = <<name, "lock">>
Ret             == pc' = <<"ret", "-">>
NotifyAll       == notified' = notified + 1
Panicked        == <<"panicked", "-">>
Exited          == <<"done", "-">>

\* drop_and_call!: std::mem::drop(state) releases the guard before the callee
\* runs.  The value is the holder of the Mutex when the callee is entered.
DropAndCallNoDrop(holder) == holder
DropAndCall(holder) == "free"

\* The end of a guard's scope.
Unlock == lock' = "free"

\* lock().unwrap() at the head of a closure: the closure runs once the Mutex
\* is free; its guard is held to the end of the step.
Locked(name, stage) == pc = <<name, stage>> /\ lock = "free"
Guard == "input"

\* ------------------------------------------------------- ui::State methods
\* State::play_first_of_musicbar(notifier): plays the front row of the music
\* panel and notifies when that changed anything.
PlayFirstOfMusicbar(st) ==
    [ call   |-> [op |-> "play_first_of_musicbar",
                  front |-> IF st.musicbar = <<>> THEN None ELSE Some(Head(st.musicbar).id)],
      notify |-> IF st.musicbar = <<>> THEN 0 ELSE 1 ]

\* State::toggle_pause(notifier)
TogglePause(st) ==
    [ call   |-> [op |-> "toggle_pause", front |-> None],
      notify |-> 1 ]

\* ------------------------------------------------------------ listener_loop
NavCodes == {"Down", "Up", "Right", "Left", "Esc", "Enter", "Backspace"}

HandlerOf(code) ==
    CASE code = "Down"      -> "handle_down"        \* Down | PageDown
      [] code = "Up"        -> "handle_up"          \* Up | PageUp
      [] code = "Right"     -> "moveto_next_window" \* Right | Tab
      [] code = "Left"      -> "moveto_prev_window" \* Left | BackTab
      [] code = "Esc"       -> "handle_esc"
      [] code = "Enter"     -> "handle_enter"
      [] OTHER              -> "handle_backspace"   \* Backspace | Delete

ShortcutChars == {SEARCH_SH_KEY, HELP_SH_KEY, QUIT_SH_KEY, NEXT_SH_KEY, PREV_SH_KEY,
                  SEEK_F_KEY, SEEK_B_KEY, TOGGLE_PAUSE_KEY}
\* The characters typed into the search bar.
QueryChars == {" ", "a"}

\* No page above MaxPage is requested: the next page of every counter and of
\* the outstanding request still fits.
PageRoom ==
    /\ \A i \in 1 .. 3 : IF state.fetched_page[i] = None THEN TRUE
                          ELSE Unwrap(state.fetched_page[i]) < MaxPage
    /\ \A i \in 1 .. 3 : IF state.to_fetch.pages[i] = None THEN TRUE
                          ELSE Unwrap(state.to_fetch.pages[i]) < MaxPage
    /\ state.to_fetch.page < MaxPage

AtPoll == pc = <<"poll", "-">>

Begin(k) ==
    /\ key' = k
    /\ pre' = state
    /\ notified' = 0
    /\ backend' = <<>>

\* Event::Key with a navigation key code.
EvNavKey(codes) ==
    /\ AtPoll
    /\ \E code \in codes :
         /\ Begin([code |-> code, ch |-> "", ctrl |-> FALSE])
         /\ Call(HandlerOf(code))
    /\ dir' = "Initial"
    /\ UNCHANGED <<state, lock, poisoned>>

\* Event::Key(KeyCode::Char(ch)): typed is the set of characters the user
\* types while the search bar has the focus, shortcuts the set typed elsewhere.
EvChar(shortcuts, typed) ==
    /\ AtPoll
    /\ \E ch \in (IF state.active = "Searchbar" THEN typed
                  ELSE shortcuts), ctrl \in BOOLEAN :
         /\ state.active = "Searchbar" => Len(state.search[1]) < MaxQuery
         /\ ctrl => (state.active = "Searchbar" \/ ch \in {NEXT_SH_KEY, PREV_SH_KEY})
         /\ (ch = NEXT_SH_KEY /\ ~ctrl) => PageRoom
         /\ Begin([code |-> "Char", ch |-> ch, ctrl |-> ctrl])
    /\ Call("char")
    /\ dir' = "Initial"
    /\ UNCHANGED <<state, lock, poisoned>>

\* A loop whose timeout and resize branches do not notify.
EvResizeOrTimeoutSilent ==
    /\ AtPoll
    /\ \E code \in {"Resize", "Timeout"} :
         Begin([code |-> code, ch |-> "", ctrl |-> FALSE])
    /\ Ret
    /\ UNCHANGED <<state, lock, poisoned, dir>>

\* Event::Resize, and the poll timeout: notify only.
EvResizeOrTimeout ==
    /\ AtPoll
    /\ \E code \in {"Resize", "Timeout"} :
         /\ key' = [code |-> code, ch |-> "", ctrl |-> FALSE]
         /\ pre' = state
         /\ backend' = <<>>
    /\ notified' = 1
    /\ Ret
    /\ UNCHANGED <<state, lock, poisoned, dir>>

\* Event::Mouse, and the key codes no arm matches.
EvIgnored ==
    /\ AtPoll
    /\ \E code \in {"Mouse", "Other"} :
         Begin([code |-> code, ch |-> "", ctrl |-> FALSE])
    /\ Ret
    /\ UNCHANGED <<state, lock, poisoned, dir>>

\* event::poll(..).unwrap() / event::read().unwrap() on a device error.
DeviceError ==
    /\ AtPoll
    /\ Begin([code |-> "DeviceError", ch |-> "", ctrl |-> FALSE])
    /\ pc' = Panicked
    /\ UNCHANGED <<state, lock, poisoned, dir>>

\* The next iteration of 'listener_loop.
Loop ==
    /\ pc = <<"ret", "-">>
    /\ pc' = <<"poll", "-">>
    /\ key' = NoKey
    /\ pre' = NoPre
    /\ notified' = 0
    /\ backend' = <<>>
    /\ dir' = "Initial"
    /\ UNCHANGED <<state, lock, poisoned>>

\* The value the quit arm leaves the loop with: break 'listener_loop.
AfterQuitNoBreak == <<"ret", "-">>
AfterQuit == Exited

\* A dispatch that tests the quit shortcut before the focus.
CharDispatchQuitFirst ==
    /\ Locked("char", "lock")
    /\ Unlock
    /\ IF key.ch = QUIT_SH_KEY THEN Call("quit")
       ELSE IF state.active = "Searchbar" THEN Call("handle_search_input")
       ELSE Ret
    /\ UNCHANGED <<state, poisoned, key, dir, pre, notified, backend>>

\* KeyCode::Char(ch): the focus test (line 413), then the shortcut table.
CharDispatch ==
    /\ Locked("char", "lock")
    /\ Unlock
    /\ IF state.active = "Searchbar" THEN Call("handle_search_input") /\ dir' = dir
       ELSE CASE key.ch = SEARCH_SH_KEY -> Call("activate_search") /\ dir' = dir
              [] key.ch = HELP_SH_KEY   -> pc' = <<"show_help", "-">> /\ dir' = dir
              [] key.ch = QUIT_SH_KEY   -> Call("quit") /\ dir' = dir
              [] key.ch = NEXT_SH_KEY   ->
                    /\ dir' = "Next"
                    /\ IF key.ctrl THEN Call("handle_play_advance") ELSE Call("handle_page_nav")
              [] key.ch = PREV_SH_KEY   ->
                    /\ dir' = "Prev"
                    /\ IF key.ctrl THEN Call("handle_play_advance") ELSE Call("handle_page_nav")
              [] key.ch = SEEK_F_KEY    -> Ret /\ dir' = dir
              [] key.ch = SEEK_B_KEY    -> Ret /\ dir' = dir
              [] key.ch = TOGGLE_PAUSE_KEY -> Call("toggle_pause") /\ dir' = dir
              [] OTHER -> Ret /\ dir' = dir
    /\ UNCHANGED <<state, poisoned, key, pre, notified, backend>>

\* state_original.lock().unwrap().toggle_pause(notifier)
toggle_pause ==
    /\ Locked("toggle_pause", "lock")
    /\ backend' = Append(backend, TogglePause(state).call)
    /\ notified' = notified + TogglePause(state).notify
    /\ Unlock
    /\ Ret
    /\ UNCHANGED <<state, poisoned, key, dir, pre>>

\* ------------------------------------------------- closures of event_sender
advance_sidebar ==
    /\ Locked("advance_sidebar", "lock")
    /\ LET current == IF state.sidebar = None THEN 0 ELSE Unwrap(state.sidebar)
       IN  state' = [state EXCEPT
                       !.sidebar = Some(advance_index(current, SIDEBAR_LIST_COUNT, dir))]
    /\ NotifyAll
    /\ Unlock
    /\ Ret
    /\ UNCHANGED <<poisoned, key, dir, pre, backend>>

\* advance_music_list / advance_playlist_list / advance_artist_list: the
\* panel's list after advance_list, and the notify_all calls made.
AdvancePanel(st, panel, direction) ==
    LET r == advance_list(st[panel], direction)
    IN  [ state  |-> [st EXCEPT ![panel] = r.list],
          notify |-> IF r.ok THEN 1 ELSE 0 ]

advance_music_list ==
    /\ Locked("advance_music_list", "lock")
    /\ state' = AdvancePanel(state, "musicbar", dir).state
    /\ notified' = notified + AdvancePanel(state, "musicbar", dir).notify
    /\ Unlock
    /\ Ret
    /\ UNCHANGED <<poisoned, key, dir, pre, backend>>

advance_artist_list ==
    /\ Locked("advance_artist_list", "lock")
    /\ state' = AdvancePanel(state, "artistbar", dir).state
    /\ notified' = notified + AdvancePanel(state, "artistbar", dir).notify
    /\ Unlock
    /\ Ret
    /\ UNCHANGED <<poisoned, key, dir, pre, backend>>

advance_playlist_list ==
    /\ Locked("advance_playlist_list", "lock")
    /\ state' = AdvancePanel(state, "playlistbar", dir).state
    /\ notified' = notified + AdvancePanel(state, "playlistbar", dir).notify
    /\ Unlock
    /\ Ret
    /\ UNCHANGED <<poisoned, key, dir, pre, backend>>

\* setting active window to None is to quit
QuitWindow(w) == "None"

quit ==
    /\ Locked("quit", "lock")
    /\ state' = [state EXCEPT !.active = QuitWindow(state.active)]
    /\ NotifyAll
    /\ Unlock
    /\ pc' = AfterQuit
    /\ UNCHANGED <<poisoned, key, dir, pre, backend>>

moveto_next_window ==
    /\ Locked("moveto_next_window", "lock")
    /\ state' = [state EXCEPT !.active = WindowNext(state.active)]
    /\ NotifyAll
    /\ Unlock
    /\ Ret
    /\ UNCHANGED <<poisoned, key, dir, pre, backend>>

moveto_prev_window ==
    /\ Locked("moveto_prev_window", "lock")
    /\ state' = [state EXCEPT !.active = WindowPrev(state.active)]
    /\ NotifyAll
    /\ Unlock
    /\ Ret
    /\ UNCHANGED <<poisoned, key, dir, pre, backend>>

handle_esc ==
    /\ Locked("handle_esc", "lock")
    /\ IF state.active = "Searchbar"
       THEN /\ state' = [state EXCEPT !.search = << <<>>, state.search[2] >>]
            /\ lock' = DropAndCall(Guard)
            /\ Call("moveto_next_window")
       ELSE /\ state' = state
            /\ Unlock
            /\ Ret
    /\ UNCHANGED <<poisoned, key, dir, pre, notified, backend>>

\* A pop that removes the first character.
PopFront(s) == IF s = <<>> THEN s ELSE Tail(s)

\* String::pop
Pop(s) == IF s = <<>> THEN s ELSE SubSeq(s, 1, Len(s) - 1)

handle_backspace ==
    /\ Locked("handle_backspace", "lock")
    /\ IF state.active = "Searchbar"
       THEN /\ state' = [state EXCEPT !.search = << Pop(state.search[1]), state.search[2] >>]
            /\ NotifyAll
            /\ Unlock
            /\ Ret
       ELSE /\ state' = state
            /\ notified' = notified
            /\ lock' = DropAndCall(Guard)
            /\ Call("moveto_prev_window")
    /\ UNCHANGED <<poisoned, key, dir, pre, backend>>

handle_search_input ==
    /\ Locked("handle_search_input", "lock")
    /\ state' = [state EXCEPT !.search = << Append(state.search[1], key.ch), state.search[2] >>]
    /\ NotifyAll
    /\ Unlock
    /\ Ret
    /\ UNCHANGED <<poisoned, key, dir, pre, backend>>

\* An activation that also starts the search of the committed query.
activate_search_fetching ==
    /\ Locked("activate_search", "lock")
    /\ state' = [state EXCEPT !.active = "Searchbar",
                              !.to_fetch = FetchSearch(state.search[2],
                                                       <<Some(0), Some(0), Some(0)>>)]
    /\ NotifyAll
    /\ Unlock
    /\ Ret
    /\ UNCHANGED <<poisoned, key, dir, pre, backend>>

activate_search ==
    /\ Locked("activate_search", "lock")
    /\ state' = [state EXCEPT !.active = "Searchbar"]
    /\ NotifyAll
    /\ Unlock
    /\ Ret
    /\ UNCHANGED <<poisoned, key, dir, pre, backend>>

\* A help closure with an empty body: it returns.
show_help_empty ==
    /\ At("show_help", "-")
    /\ Ret
    /\ UNCHANGED <<state, lock, poisoned, key, dir, pre, notified, backend>>

\* todo!()
show_help ==
    /\ At("show_help", "-")
    /\ pc' = Panicked
    /\ UNCHANGED <<state, lock, poisoned, key, dir, pre, notified, backend>>

\* The closure handle_up / handle_down hand over to, by the window in focus.
AdvanceOf(w, other) ==
    CASE w = "Sidebar"     -> "advance_sidebar"
      [] w = "Musicbar"    -> "advance_music_list"
      [] w = "Playlistbar" -> "advance_playlist_list"
      [] w = "Artistbar"   -> "advance_artist_list"
      [] OTHER             -> other

handle_up ==
    /\ Locked("handle_up", "lock")
    /\ lock' = DropAndCall(Guard)
    /\ Call(AdvanceOf(state.active, "moveto_prev_window"))
    /\ dir' = "Prev"
    /\ UNCHANGED <<state, poisoned, key, pre, notified, backend>>

handle_down ==
    /\ Locked("handle_down", "lock")
    /\ lock' = DropAndCall(Guard)
    /\ Call(AdvanceOf(state.active, "moveto_next_window"))
    /\ dir' = "Next"
    /\ UNCHANGED <<state, poisoned, key, pre, notified, backend>>

\* ------------------------------------------------------------ fill closures
\* fill_search!: the columns each form of the macro hands to "@internal-core".
FillSearchCols(variant) ==
    CASE variant = "fill_search_music"    -> {MIDDLE_MUSIC_INDEX}
      [] variant = "fill_search_playlist" -> {MIDDLE_PLAYLIST_INDEX}
      [] variant = "fill_search_artist"   -> {MIDDLE_ARTIST_INDEX}
      [] OTHER -> {MIDDLE_MUSIC_INDEX, MIDDLE_PLAYLIST_INDEX, MIDDLE_ARTIST_INDEX}

FillSearchVariants == {"fill_search_music", "fill_search_playlist",
                       "fill_search_artist", "fill_search_all"}

\* A request slot that keeps the outstanding request until it is consumed.
FillSearchCoreKeepFirst(st, cols, direction) ==
    LET to_search == [i \in 1 .. 3 |->
                        IF i \in cols THEN Some(get_page(st.fetched_page[i], direction))
                                      ELSE None]
    IN  IF st.to_fetch # FetchNone THEN [st EXCEPT !.help = "Searching.."]
        ELSE [st EXCEPT !.to_fetch = FetchSearch(st.search[2], to_search),
                        !.help = "Searching.."]

\* fill_search!("@internal-core", ..): the request composed from the committed
\* query and the page of every column asked for.
FillSearchCore(st, cols, direction) ==
    LET to_search == [i \in 1 .. 3 |->
                        IF i \in cols THEN Some(get_page(st.fetched_page[i], direction))
                                      ELSE None]
    IN  [st EXCEPT !.to_fetch = FetchSearch(st.search[2], to_search),
                   !.help = "Searching.."]

\* fill_search!: the source tags written after "@internal-core" (the "music",
\* "playlist" and "artist" forms all assign filled_source.0).
FillSearchTag(variant, fs) ==
    CASE variant = "fill_search_music"    -> [fs EXCEPT ![1] = Src("Search")]
      [] variant = "fill_search_playlist" -> [fs EXCEPT ![1] = Src("Search")]
      [] variant = "fill_search_artist"   -> [fs EXCEPT ![1] = Src("Search")]
      [] OTHER -> <<Src("Search"), Src("Search"), Src("Search")>>

fill_search_core ==
    /\ pc[1] \in FillSearchVariants
    /\ pc[2] = "lock"
    /\ lock = "free"
    /\ state' = FillSearchCore(state, FillSearchCols(pc[1]), dir)
    /\ NotifyAll
    /\ Unlock
    /\ pc' = <<pc[1], "lock2">>
    /\ UNCHANGED <<poisoned, key, dir, pre, backend>>

fill_search_tag ==
    /\ pc[1] \in FillSearchVariants
    /\ pc[2] = "lock2"
    /\ lock = "free"
    /\ state' = [state EXCEPT !.filled_source = FillSearchTag(pc[1], state.filled_source)]
    /\ Unlock
    /\ Ret
    /\ UNCHANGED <<poisoned, key, dir, pre, notified, backend>>

\* A trending fill that records the page it asks for, as the playlist fill does.
fill_trending_music_counting ==
    /\ pc = <<"fill_trending_music", "lock">> /\ lock = "free"
    /\ LET page == get_page(state.fetched_page[MIDDLE_MUSIC_INDEX], dir)
       IN  state' = [state EXCEPT !.fetched_page[MIDDLE_MUSIC_INDEX] = Some(page),
                                  !.to_fetch = FetchTrending(page),
                                  !.help = "Fetching.."]
    /\ NotifyAll
    /\ Unlock
    /\ Ret
    /\ UNCHANGED <<poisoned, key, dir, pre, backend>>

fill_trending_music ==
    /\ Locked("fill_trending_music", "lock")
    /\ LET page == get_page(state.fetched_page[MIDDLE_MUSIC_INDEX], dir)
       IN  state' = [state EXCEPT !.to_fetch = FetchTrending(page),
                                  !.help = "Fetching.."]
    /\ NotifyAll
    /\ Unlock
    /\ Ret
    /\ UNCHANGED <<poisoned, key, dir, pre, backend>>

\* The closures whose body is commented out.
EmptyFills == {"fill_community_music", "fill_recents_music",
               "fill_favourates_music", "fill_following_artist"}

fill_community_music ==
    /\ At("fill_community_music", "-")
    /\ Ret
    /\ UNCHANGED <<state, lock, poisoned, key, dir, pre, notified, backend>>

\* The closure with its fill! call in place: it would notify.
fill_recents_music_filled ==
    /\ pc = <<"fill_recents_music", "-">>
    /\ NotifyAll
    /\ Ret
    /\ UNCHANGED <<state, lock, poisoned, key, dir, pre, backend>>

fill_recents_music ==
    /\ At("fill_recents_music", "-")
    /\ Ret
    /\ UNCHANGED <<state, lock, poisoned, key, dir, pre, notified, backend>>

fill_favourates_music ==
    /\ At("fill_favourates_music", "-")
    /\ Ret
    /\ UNCHANGED <<state, lock, poisoned, key, dir, pre, notified, backend>>

fill_following_artist ==
    /\ At("fill_following_artist", "-")
    /\ Ret
    /\ UNCHANGED <<state, lock, poisoned, key, dir, pre, notified, backend>>

fill_music_from_playlist ==
    /\ Locked("fill_music_from_playlist", "lock")
    /\ IF state.filled_source[1].t = "Playlist"
       THEN /\ LET page == get_page(state.fetched_page[MIDDLE_MUSIC_INDEX], dir)
               IN  state' = [state EXCEPT
                               !.fetched_page[MIDDLE_MUSIC_INDEX] = Some(page),
                               !.to_fetch = FetchPlaylist]
            /\ NotifyAll
       ELSE /\ state' = state
            /\ notified' = notified
    /\ Unlock
    /\ Ret
    /\ UNCHANGED <<poisoned, key, dir, pre, backend>>

fill_playlist_from_artist ==
    /\ Locked("fill_playlist_from_artist", "lock")
    /\ IF state.filled_source[2].t = "Artist"
       THEN /\ LET page == get_page(state.fetched_page[MIDDLE_PLAYLIST_INDEX], dir)
               IN  state' = [state EXCEPT
                               !.fetched_page[MIDDLE_PLAYLIST_INDEX] = Some(page)]
            /\ NotifyAll
       ELSE /\ state' = state
            /\ notified' = notified
    /\ Unlock
    /\ Ret
    /\ UNCHANGED <<poisoned, key, dir, pre, backend>>

\* The front row of the music panel.
FrontOf(st) == IF st.musicbar = <<>> THEN None ELSE Some(Head(st.musicbar).id)

\* handle_play_advance: advance_music_list(direction), ...
handle_play_advance_list ==
    /\ Locked("handle_play_advance", "lock")
    /\ state' = AdvancePanel(state, "musicbar", dir).state
    /\ notified' = notified + AdvancePanel(state, "musicbar", dir).notify
    /\ backend' = Append(backend, [op |-> "advance_music_list", front |-> FrontOf(state')])
    /\ Unlock
    /\ pc' = <<"handle_play_advance", "lock2">>
    /\ UNCHANGED <<poisoned, key, dir, pre>>

\* ... then state_original.lock().unwrap().play_first_of_musicbar(notifier)
handle_play_advance_play ==
    /\ Locked("handle_play_advance", "lock2")
    /\ backend' = Append(backend, PlayFirstOfMusicbar(state).call)
    /\ notified' = notified + PlayFirstOfMusicbar(state).notify
    /\ Unlock
    /\ Ret
    /\ UNCHANGED <<state, poisoned, key, dir, pre>>

\* handle_page_nav: the closure the focused panel's source selects; "" for the
\* arms that do nothing, "todo" for the todo!() arm.
PageNavTarget(st) ==
    CASE st.active = "Musicbar" ->
            (CASE st.filled_source[1].t = "Trending"         -> "fill_trending_music"
               [] st.filled_source[1].t = "YoutubeCommunity" -> "fill_community_music"
               [] st.filled_source[1].t = "RecentlyPlayed"   -> "fill_recents_music"
               [] st.filled_source[1].t = "Favourates"       -> "fill_favourates_music"
               [] st.filled_source[1].t = "Search"           -> "fill_search_music"
               [] st.filled_source[1].t = "Playlist"         -> "fill_music_from_playlist"
               [] OTHER -> "")
      [] st.active = "Playlistbar" ->
            (CASE st.filled_source[2].t = "Search" -> "fill_search_playlist"
               [] st.filled_source[2].t = "Artist" -> "todo"
               [] OTHER -> "")
      [] st.active = "Artistbar" ->
            (CASE st.filled_source[3].t = "Followings" -> "fill_following_artist"
               [] st.filled_source[3].t = "Search"     -> "fill_search_artist"
               [] OTHER -> "")
      [] OTHER -> ""

handle_page_nav ==
    /\ Locked("handle_page_nav", "lock")
    /\ LET target == PageNavTarget(state)
       IN  CASE target = "" ->
                  Unlock /\ Ret /\ poisoned' = poisoned
             [] target = "todo" ->
                  \* the panic unwinds through the guard: unlocked and poisoned
                  Unlock /\ pc' = Panicked /\ poisoned' = TRUE
             [] target \in EmptyFills ->
                  lock' = DropAndCall(Guard) /\ pc' = <<target, "-">> /\ poisoned' = poisoned
             [] OTHER ->
                  lock' = DropAndCall(Guard) /\ Call(target) /\ poisoned' = poisoned
    /\ UNCHANGED <<state, key, dir, pre, notified, backend>>

\* ---------------------------------------------------------------- handle_enter
\* The writes handle_enter makes under its guard, by the window in focus.
EnterWrites(st) ==
    CASE st.active = "Sidebar" /\ st.sidebar # None ->
            (CASE SidebarOptionOf(Unwrap(st.sidebar)) = "Trending" ->
                    [st EXCEPT !.fetched_page[MIDDLE_MUSIC_INDEX] = None,
                               !.filled_source[1] = Src("Trending"),
                               !.musicbar = <<>>]
               [] SidebarOptionOf(Unwrap(st.sidebar)) = "YoutubeCommunity" ->
                    [st EXCEPT !.filled_source[1] = Src("YoutubeCommunity"),
                               !.musicbar = <<>>]
               [] SidebarOptionOf(Unwrap(st.sidebar)) = "Favourates" ->
                    [st EXCEPT !.filled_source = <<Src("Favourates"), Src("Favourates"),
                                                   Src("Followings")>>,
                               !.musicbar = <<>>, !.playlistbar = <<>>, !.artistbar = <<>>]
               [] SidebarOptionOf(Unwrap(st.sidebar)) = "RecentlyPlayed" ->
                    [st EXCEPT !.filled_source = <<Src("RecentlyPlayed"), Src("RecentlyPlayed"),
                                                   Src("RecentlyPlayed")>>,
                               !.musicbar = <<>>, !.playlistbar = <<>>, !.artistbar = <<>>]
               [] OTHER -> st)
      [] st.active = "Searchbar" ->
            [st EXCEPT !.search = << st.search[1], Trim(st.search[1]) >>,
                       !.fetched_page = <<None, None, None>>,
                       !.musicbar = <<>>, !.playlistbar = <<>>, !.artistbar = <<>>]
      [] st.active = "Playlistbar" /\ st.playlistbar # <<>> ->
            [st EXCEPT !.filled_source[1] = SrcOf("Playlist", Head(st.playlistbar).id),
                       !.fetched_page[MIDDLE_MUSIC_INDEX] = None,
                       !.musicbar = <<>>]
      [] st.active = "Artistbar" /\ st.artistbar # <<>> ->
            [st EXCEPT !.filled_source[1] = SrcOf("Artist", Head(st.artistbar).id),
                       !.filled_source[2] = SrcOf("Artist", Head(st.artistbar).id),
                       !.fetched_page[MIDDLE_MUSIC_INDEX] = None,
                       !.fetched_page[MIDDLE_PLAYLIST_INDEX] = None,
                       !.musicbar = <<>>, !.playlistbar = <<>>]
      [] OTHER -> st

\* The closure handle_enter hands over to once its guard is dropped: "" for
\* none, "play" for play_first_of_musicbar under the guard, "unwrap" for
\* sidebar.selected().unwrap() on None.
EnterTarget(st) ==
    CASE st.active = "Sidebar" /\ st.sidebar = None -> "unwrap"
      [] st.active = "Sidebar" /\ st.sidebar # None ->
            (CASE SidebarOptionOf(Unwrap(st.sidebar)) = "Trending"         -> "fill_trending_music"
               [] SidebarOptionOf(Unwrap(st.sidebar)) = "YoutubeCommunity" -> "fill_community_music"
               [] SidebarOptionOf(Unwrap(st.sidebar)) = "Favourates"       -> "fill_favourates_music"
               [] SidebarOptionOf(Unwrap(st.sidebar)) = "RecentlyPlayed"   -> "fill_recents_music"
               [] SidebarOptionOf(Unwrap(st.sidebar)) = "Search"           -> "activate_search"
               [] OTHER -> "")
      [] st.active = "Musicbar"  -> "play"
      [] st.active = "Searchbar" -> "fill_search_all"
      [] st.active = "Playlistbar" /\ st.playlistbar # <<>> -> "fill_music_from_playlist"
      [] st.active = "Artistbar" /\ st.artistbar # <<>>     -> "fill_playlist_from_artist"
      [] OTHER -> ""

handle_enter ==
    /\ Locked("handle_enter", "lock")
    /\ state' = EnterWrites(state)
    /\ dir' = "Initial"
    /\ LET target == EnterTarget(state)
       IN  CASE target = "" ->
                  /\ Unlock /\ Ret
                  /\ UNCHANGED <<poisoned, notified, backend>>
             [] target = "unwrap" ->
                  /\ Unlock /\ pc' = Panicked /\ poisoned' = TRUE
                  /\ UNCHANGED <<notified, backend>>
             [] target = "play" ->
                  /\ backend' = Append(backend, PlayFirstOfMusicbar(state).call)
                  /\ notified' = notified + PlayFirstOfMusicbar(state).notify
                  /\ Unlock /\ Ret
                  /\ poisoned' = poisoned
             [] target \in {"fill_search_all", "fill_playlist_from_artist"} ->
                  \* std::mem::drop(state), then the call
                  /\ Unlock /\ Call(target)
                  /\ UNCHANGED <<poisoned, notified, backend>>
             [] target \in EmptyFills ->
                  /\ lock' = DropAndCall(Guard) /\ pc' = <<target, "-">>
                  /\ UNCHANGED <<poisoned, notified, backend>>
             [] OTHER ->
                  /\ lock' = DropAndCall(Guard) /\ Call(target)
                  /\ UNCHANGED <<poisoned, notified, backend>>
    /\ UNCHANGED <<key, pre>>

\* ------------------------------------------------------ render/fetch worker
\* The worker serves the outstanding request under the lock: it writes the
\* rows of every panel the request names, records the page fetched and takes
\* the request.
Panels == <<"musicbar", "playlistbar", "artistbar">>

WorkerFetched(st) ==
    LET rows == FetchedRows(MaxRows)
        f    == st.to_fetch
    IN  CASE f.t = "Trending" ->
               [st EXCEPT !.musicbar = rows,
                          !.fetched_page[MIDDLE_MUSIC_INDEX] = Some(f.page),
                          !.to_fetch = FetchNone]
          [] f.t = "Playlist" ->
               [st EXCEPT !.musicbar = rows, !.to_fetch = FetchNone]
          [] f.t = "Search" ->
               [st EXCEPT
                  !.musicbar    = IF f.pages[1] # None THEN rows ELSE @,
                  !.playlistbar = IF f.pages[2] # None THEN rows ELSE @,
                  !.artistbar   = IF f.pages[3] # None THEN rows ELSE @,
                  !.fetched_page = [i \in 1 .. 3 |->
                                      IF f.pages[i] # None THEN f.pages[i] ELSE @[i]],
                  !.to_fetch = FetchNone]
          [] OTHER -> st

\* The worker serving a request between two events of the input thread.
WorkerServe ==
    /\ AtPoll
    /\ lock = "free"
    /\ state.to_fetch # FetchNone
    /\ state' = WorkerFetched(state)
    /\ UNCHANGED <<lock, poisoned, pc, key, dir, pre, notified, backend>>

\* ------------------------------------------------------- specifications
\* The closures behind the window keys and the shortcut table.
WindowSteps ==
    \/ moveto_next_window
    \/ moveto_prev_window
    \/ handle_esc
    \/ handle_backspace
    \/ activate_search

FillSteps ==
    \/ handle_enter
    \/ handle_page_nav
    \/ fill_search_core
    \/ fill_search_tag
    \/ fill_trending_music
    \/ fill_recents_music
    \/ fill_music_from_playlist
    \/ fill_playlist_from_artist

ListSteps ==
    \/ handle_up
    \/ handle_down
    \/ advance_sidebar
    \/ advance_music_list
    \/ advance_artist_list
    \/ advance_playlist_list

\* Browsing the panels: every key but Up/Down, nothing typed into the search
\* bar; the worker serves requests between events.
Next ==
    \/ EvNavKey({"Right", "Left", "Enter", "Esc", "Backspace"})
    \/ EvChar(ShortcutChars \cup {"a"}, {})
    \/ EvResizeOrTimeout
    \/ EvIgnored
    \/ DeviceError
    \/ CharDispatch
    \/ WindowSteps
    \/ FillSteps
    \/ quit
    \/ show_help
    \/ toggle_pause
    \/ handle_play_advance_list
    \/ handle_play_advance_play
    \/ Loop
    \/ WorkerServe

Spec == Init /\ [][Next]_vars

\* The sidebar and the lists: Up, Down, Enter and Right.
NextSidebar ==
    \/ EvNavKey({"Up", "Down", "Enter", "Right"})
    \/ ListSteps
    \/ handle_enter
    \/ fill_search_core
    \/ fill_search_tag
    \/ fill_trending_music
    \/ fill_recents_music
    \/ fill_community_music
    \/ fill_favourates_music
    \/ fill_music_from_playlist
    \/ fill_playlist_from_artist
    \/ moveto_next_window
    \/ moveto_prev_window
    \/ activate_search
    \/ Loop
    \/ WorkerServe

SpecSidebar == Init /\ [][NextSidebar]_vars

\* The search bar: the query is typed, edited and committed.
NextSearch ==
    \/ EvNavKey({"Enter", "Esc", "Backspace", "Left"})
    \/ EvChar({SEARCH_SH_KEY}, QueryChars)
    \/ CharDispatch
    \/ handle_search_input
    \/ handle_esc
    \/ handle_backspace
    \/ moveto_next_window
    \/ moveto_prev_window
    \/ activate_search
    \/ handle_enter
    \/ fill_search_core
    \/ fill_search_tag
    \/ fill_trending_music
    \/ fill_music_from_playlist
    \/ fill_playlist_from_artist
    \/ Loop
    \/ WorkerServe

SpecSearch == Init /\ [][NextSearch]_vars

\* The worker taking the lock at any moment, also between two critical
\* sections of one handler.
WorkerLock ==
    /\ lock = "free"
    /\ lock' = "worker"
    /\ UNCHANGED <<state, poisoned, pc, key, dir, pre, notified, backend>>

WorkerServeLocked ==
    /\ lock = "worker"
    /\ state.to_fetch # FetchNone
    /\ state' = WorkerFetched(state)
    /\ UNCHANGED <<lock, poisoned, pc, key, dir, pre, notified, backend>>

\* The worker has the same rights on every field: it retags the music panel
\* (and clears its rows) on its own account.
WorkerRetag ==
    /\ lock = "worker"
    /\ state.filled_source[1] # Src("RecentlyPlayed")
    /\ state' = [state EXCEPT !.filled_source[1] = Src("RecentlyPlayed"),
                              !.musicbar = <<>>]
    /\ UNCHANGED <<lock, poisoned, pc, key, dir, pre, notified, backend>>

WorkerUnlock ==
    /\ lock = "worker"
    /\ lock' = "free"
    /\ UNCHANGED <<state, poisoned, pc, key, dir, pre, notified, backend>>

\* Searching and paging while the worker runs beside the input thread.
NextConc ==
    \/ EvNavKey({"Enter", "Esc", "Backspace", "Right"})
    \/ EvChar({SEARCH_SH_KEY, NEXT_SH_KEY}, {})
    \/ CharDispatch
    \/ WindowSteps
    \/ FillSteps
    \/ Loop
    \/ WorkerLock
    \/ WorkerServeLocked
    \/ WorkerRetag
    \/ WorkerUnlock

SpecConc == Init /\ [][NextConc]_vars

\* Paging and play-advance (n, p, Ctrl+n, Ctrl+p) while the worker serves
\* requests beside the input thread.
NextPlay ==
    \/ EvNavKey({"Enter", "Right"})
    \/ EvChar({NEXT_SH_KEY, PREV_SH_KEY}, {})
    \/ CharDispatch
    \/ moveto_next_window
    \/ FillSteps
    \/ handle_play_advance_list
    \/ handle_play_advance_play
    \/ Loop
    \/ WorkerLock
    \/ WorkerServeLocked
    \/ WorkerUnlock

SpecPlay == Init /\ [][NextPlay]_vars

\* Every feed of the sidebar entered and paged backwards (p, Ctrl+p), the
\* worker serving requests between events.
NextFeeds ==
    \/ EvNavKey({"Down", "Enter", "Right", "Esc"})
    \/ EvChar({PREV_SH_KEY}, {})
    \/ CharDispatch
    \/ moveto_next_window
    \/ handle_esc
    \/ activate_search
    \/ FillSteps
    \/ handle_down
    \/ advance_sidebar
    \/ advance_music_list
    \/ advance_artist_list
    \/ advance_playlist_list
    \/ fill_community_music
    \/ fill_favourates_music
    \/ fill_following_artist
    \/ handle_play_advance_list
    \/ handle_play_advance_play
    \/ Loop
    \/ WorkerServe

SpecFeeds == Init /\ [][NextFeeds]_vars

\* Every character typed in every window (no request is made).
NextTyping ==
    \/ EvNavKey({"Right"})
    \/ EvChar(ShortcutChars \cup {"a"}, ShortcutChars \cup {"a"})
    \/ CharDispatch
    \/ handle_search_input
    \/ activate_search
    \/ moveto_next_window
    \/ quit
    \/ show_help
    \/ toggle_pause
    \/ handle_page_nav
    \/ fill_recents_music
    \/ handle_play_advance_list
    \/ handle_play_advance_play
    \/ Loop

SpecTyping == Init /\ [][NextTyping]_vars

\* The input thread of the idle-loop specification: search bar keys, q,
\* resize and mouse events, poll timeouts.
InputLive ==
    \/ EvNavKey({"Enter", "Esc"})
    \/ EvChar({SEARCH_SH_KEY, QUIT_SH_KEY}, {"a"})
    \/ EvResizeOrTimeout
    \/ EvIgnored
    \/ CharDispatch
    \/ handle_search_input
    \/ handle_esc
    \/ moveto_next_window
    \/ activate_search
    \/ quit
    \/ handle_enter
    \/ fill_search_core
    \/ fill_search_tag
    \/ fill_trending_music
    \/ Loop

NextLive == InputLive \/ WorkerServe

\* The input thread is scheduled: poll returns after REFRESH_RATE at the
\* latest, and the Mutex is free whenever a closure asks for it.
SpecLive == Init /\ [][NextLive]_vars /\ WF_vars(InputLive)

\* ------------------------------------------------------------------ claims
AtRet  == pc = <<"ret", "-">>
Handled(code) == AtRet /\ key.code = code
\* n or p without the control modifier
PagingKey == AtRet /\ key.code = "Char" /\ key.ch \in {NEXT_SH_KEY, PREV_SH_KEY} /\ ~key.ctrl

\* C1: once Enter has been handled with the focus on the search bar, the
\* committed query is the live query without its leading and trailing
\* whitespace, the three panels are empty, fetched_page is [None, None, None],
\* to_fetch is Search(committed query, [Some(0), Some(0), Some(0)]) and
\* notify_all was called exactly once.
C1_SearchCommit ==
    (Handled("Enter") /\ pre.active = "Searchbar") =>
        /\ IsTrimOf(state.search[2], pre.search[1])
        /\ state.musicbar = <<>> /\ state.playlistbar = <<>> /\ state.artistbar = <<>>
        /\ state.fetched_page = <<None, None, None>>
        /\ state.to_fetch = FetchSearch(state.search[2], <<Some(0), Some(0), Some(0)>>)
        /\ notified = 1

\* A commit of a query with whitespace around it, over filled panels and
\* fetched pages.
C1_Witness ==
    /\ Handled("Enter") /\ pre.active = "Searchbar"
    /\ pre.search[1] = <<"a", " ">>
    /\ state.search[2] = <<"a">>
    /\ pre.musicbar # <<>> /\ pre.artistbar # <<>>
    /\ pre.fetched_page[1] # None
    /\ pre.filled_source[1] # Src("Search")

\* C2: paging with the focus on the playlist panel and its source Search
\* leaves filled_source.1 = Search and does not change filled_source.0 or
\* filled_source.2; paging on the artist panel with source Search leaves
\* filled_source.2 = Search and does not change filled_source.0 or .1.
C2_ScopedTag ==
    /\ (PagingKey /\ pre.active = "Playlistbar" /\ pre.filled_source[2] = Src("Search")) =>
          /\ state.filled_source[2] = Src("Search")
          /\ state.filled_source[1] = pre.filled_source[1]
          /\ state.filled_source[3] = pre.filled_source[3]
    /\ (PagingKey /\ pre.active = "Artistbar" /\ pre.filled_source[3] = Src("Search")) =>
          /\ state.filled_source[3] = Src("Search")
          /\ state.filled_source[1] = pre.filled_source[1]
          /\ state.filled_source[2] = pre.filled_source[2]

\* C3: when a key handler has changed a panel's source tag, that panel's rows
\* are empty once the handler has returned.
C3_TagRowsPaired ==
    AtRet => \A i \in 1 .. 3 :
                state.filled_source[i] # pre.filled_source[i] => state[Panels[i]] = <<>>

\* C4: once Enter has been handled with the focus on a non-empty artist
\* panel whose front row is A, the music and playlist panels are tagged
\* Artist(A) and empty, to_fetch has been set to a request for that artist
\* (not left at its previous value) and notify_all was called.
C4_ArtistActivation ==
    (Handled("Enter") /\ pre.active = "Artistbar" /\ pre.artistbar # <<>>) =>
        LET A == Head(pre.artistbar).id
        IN  /\ state.filled_source[1] = SrcOf("Artist", A)
            /\ state.filled_source[2] = SrcOf("Artist", A)
            /\ state.musicbar = <<>> /\ state.playlistbar = <<>>
            /\ state.to_fetch.t = "Artist"
            /\ notified >= 1

\* C5: once Enter has been handled with the focus on the sidebar and the
\* option Trending, YoutubeCommunity, Favourates or RecentlyPlayed selected,
\* the panels of that option are empty and retagged, to_fetch is the request
\* for that feed (Trending(0), with fetched_page[MUSIC] reset, for Trending)
\* and notify_all was called.
C5_SidebarCommit ==
    (Handled("Enter") /\ pre.active = "Sidebar" /\ pre.sidebar # None) =>
        LET opt == SidebarOptionOf(Unwrap(pre.sidebar))
        IN  /\ opt = "Trending" =>
                  /\ state.musicbar = <<>>
                  /\ state.filled_source[1] = Src("Trending")
                  /\ state.fetched_page[MIDDLE_MUSIC_INDEX] = None
                  /\ state.to_fetch = FetchTrending(0)
                  /\ notified >= 1
            /\ opt = "YoutubeCommunity" =>
                  /\ state.musicbar = <<>>
                  /\ state.filled_source[1] = Src("YoutubeCommunity")
                  /\ state.to_fetch.t = "YoutubeCommunity"
                  /\ notified >= 1
            /\ opt = "Favourates" =>
                  /\ state.musicbar = <<>> /\ state.playlistbar = <<>> /\ state.artistbar = <<>>
                  /\ state.filled_source = <<Src("Favourates"), Src("Favourates"), Src("Followings")>>
                  /\ state.to_fetch.t = "Favourates"
                  /\ notified >= 1
            /\ opt = "RecentlyPlayed" =>
                  /\ state.musicbar = <<>> /\ state.playlistbar = <<>> /\ state.artistbar = <<>>
                  /\ state.filled_source = <<Src("RecentlyPlayed"), Src("RecentlyPlayed"),
                                             Src("RecentlyPlayed")>>
                  /\ state.to_fetch.t = "RecentlyPlayed"
                  /\ notified >= 1

\* C9: n or p (no control modifier) with the focus on the music panel and
\* its source Trending sets to_fetch = Trending(page) and notifies once, where
\* page is 0 when fetched_page[MUSIC] is None, p + 1 for n and max(p - 1, 0)
\* for p when it is Some(p); the page is never negative.
C9_TrendingPaging ==
    (PagingKey /\ pre.active = "Musicbar" /\ pre.filled_source[1] = Src("Trending")) =>
        LET fp   == pre.fetched_page[MIDDLE_MUSIC_INDEX]
            page == IF fp = None THEN 0
                    ELSE IF key.ch = NEXT_SH_KEY THEN fp[1] + 1
                    ELSE IF fp[1] = 0 THEN 0 ELSE fp[1] - 1
        IN  /\ state.to_fetch = FetchTrending(page)
            /\ state.to_fetch.page >= 0
            /\ notified = 1

\* p on page 0 of the trending feed asks for page 0 again.
C9_Witness ==
    /\ PagingKey /\ key.ch = PREV_SH_KEY
    /\ pre.active = "Musicbar" /\ pre.filled_source[1] = Src("Trending")
    /\ pre.fetched_page[MIDDLE_MUSIC_INDEX] = Some(0)
    /\ pre.to_fetch # FetchTrending(0)
    /\ state.to_fetch = FetchTrending(0)

\* Every step of the input thread, whatever the keys pressed.
InputThread ==
    \/ EvNavKey(NavCodes)
    \/ EvChar(ShortcutChars \cup {"a"}, QueryChars)
    \/ EvResizeOrTimeout
    \/ EvIgnored
    \/ DeviceError
    \/ CharDispatch
    \/ WindowSteps
    \/ FillSteps
    \/ ListSteps
    \/ fill_community_music
    \/ fill_favourates_music
    \/ fill_following_artist
    \/ handle_search_input
    \/ quit
    \/ show_help
    \/ toggle_pause
    \/ handle_play_advance_list
    \/ handle_play_advance_play
    \/ Loop

QuitPressed == key.code = "Char" /\ key.ch = QUIT_SH_KEY /\ pre.active # "Searchbar"
\* The input thread is between or after handlers.
Settled == pc[2] = "-" /\ pc[1] \in {"ret", "done", "panicked"}

\* q outside the search bar sets active = None, notifies once and leaves the
\* loop, after which the input thread takes no step.
QuitExits ==
    /\ (Settled /\ QuitPressed) =>
          (pc = Exited /\ state.active = "None" /\ notified = 1)
    /\ pc = Exited => ~ENABLED InputThread
    /\ state.active = "None" => pc = Exited

\* What makes the input thread panic: todo!() in show_help and in the
\* playlist arm of handle_page_nav, unwrap() of a device error, unwrap() of
\* an empty sidebar selection.
PanicCause ==
    \/ key.code = "Char" /\ key.ch = HELP_SH_KEY /\ pre.active # "Searchbar"
    \/ /\ key.code = "Char" /\ key.ch \in {NEXT_SH_KEY, PREV_SH_KEY} /\ ~key.ctrl
       /\ pre.active = "Playlistbar" /\ pre.filled_source[2].t = "Artist"
    \/ key.code = "DeviceError"
    \/ key.code = "Enter" /\ pre.active = "Sidebar" /\ pre.sidebar = None

\* C10 as stated: q outside the search bar sets active = None, notifies and
\* ends the loop, the input thread does nothing afterwards, no key but this
\* shortcut stops the input thread, and active is None only then.
C10_OnlyQuitStops ==
    /\ QuitExits
    /\ (pc \in {Exited, Panicked} /\ key.code # "DeviceError") => QuitPressed

\* C10 as amended: q outside the search bar sets active = None, notifies and
\* ends the loop, the input thread does nothing afterwards and active is None
\* only then; the loop is left by break only through this shortcut, and the
\* input thread otherwise stops only by one of the panics of PanicCause.
C10_QuitOrPanic ==
    /\ QuitExits
    /\ pc = Exited => QuitPressed
    /\ pc = Panicked => PanicCause

\* q pressed with the focus on the music panel.
C10_Witness ==
    /\ pc = Exited /\ QuitPressed
    /\ pre.active = "Musicbar" /\ pre.musicbar # <<>>
    /\ state.active = "None" /\ notified = 1

\* The worker holds the lock while the input thread is between the commit of
\* handle_enter and fill_search!("all"): the panels are cleared and the pages
\* reset, the request is not yet the search of the committed query.
HalfCommitted ==
    /\ pc = <<"fill_search_all", "lock">>
    /\ state.musicbar = <<>> /\ state.playlistbar = <<>> /\ state.artistbar = <<>>
    /\ state.fetched_page = <<None, None, None>>
    /\ state.to_fetch # FetchSearch(state.search[2], <<Some(0), Some(0), Some(0)>>)

\* The input thread is between "@internal-core" and the tag block: the request
\* is out and notified, an entry of filled_source is not yet Search.
HalfTagged ==
    /\ pc[1] \in FillSearchVariants /\ pc[2] = "lock2"
    /\ state.to_fetch.t = "Search" /\ notified >= 1
    /\ \E i \in FillSearchCols(pc[1]) : state.filled_source[i] # Src("Search")

\* C6: the search commit and fill_search are one atomic step for the worker:
\* whenever the worker holds the lock it sees neither cleared panels and reset
\* pages without the new Search request, nor the new Search request without
\* the Search tags.
C6_AtomicSearchFill == lock = "worker" => ~HalfCommitted /\ ~HalfTagged

\* The closures handle_page_nav hands over to.
PageNavTargets == {"fill_trending_music", "fill_music_from_playlist",
                   "fill_search_music", "fill_search_playlist", "fill_search_artist"}

\* C7: when the closure handle_page_nav has chosen makes its write, the focus
\* and the source tag the choice was made from are still those of the shared
\* state (for fill_trending_music: filled_source.0 = Trending and active =
\* Musicbar).
C7_ReadDecideWrite ==
    [][(key.code = "Char" /\ pc[1] \in PageNavTargets /\ pc[2] = "lock" /\ pc' # pc)
          => PageNavTarget(state) = pc[1]]_vars

\* A closure is entered or running.
Running == pc[2] \in {"lock", "lock2"} \/ pc[1] \in EmptyFills \cup {"show_help"}

\* C8: no closure is about to lock a Mutex its own thread still holds, and a
\* handler that has started can take its next step whenever the worker does
\* not hold the lock.
C8_NoSelfDeadlock ==
    /\ pc[2] \in {"lock", "lock2"} => lock # Guard
    /\ (Running /\ lock = "free") => ENABLED InputThread

\* The worker took the lock between the drop of handle_esc's guard and the
\* lock of moveto_next_window.
C8_Witness ==
    /\ key.code = "Esc" /\ pc = <<"moveto_next_window", "lock">>
    /\ pre.active = "Searchbar"
    /\ lock = "worker"

\* Ctrl+n or Ctrl+p handled by handle_play_advance.
PlayAdvanced ==
    /\ AtRet /\ key.code = "Char" /\ key.ctrl
    /\ key.ch \in {NEXT_SH_KEY, PREV_SH_KEY}
    /\ backend # <<>>

\* C11: Ctrl+n / Ctrl+p outside the search bar rotate the music list by one
\* and then play exactly the row the rotation brought to the front, whatever
\* the worker does to the music list between the two critical sections.
C11_PlayAdvance ==
    PlayAdvanced =>
        /\ Len(backend) = 2
        /\ backend[1].op = "advance_music_list"
        /\ backend[2].op = "play_first_of_musicbar"
        /\ backend[2].front = backend[1].front

\* A poll timeout was answered with a notify_all.
WokenByTimeout == AtRet /\ key.code = "Timeout" /\ notified = 1
\* An event was read from the terminal (poll did not time out).
EventRead == key.code \notin {"-", "Timeout"}
\* The input thread has left the loop.
Stopped == pc \in {Exited, Panicked}

Silent == state = pre /\ notified = 0 /\ backend = <<>>

\* The keys that apply to nothing in the state they are pressed in.
LogicalNoOp ==
    \/ /\ PagingKey
       /\ \/ /\ pre.active = "Musicbar"
             /\ pre.filled_source[1].t \in {"YoutubeCommunity", "RecentlyPlayed",
                                            "Favourates", "Artist"}
          \/ /\ pre.active = "Playlistbar"
             /\ pre.filled_source[2].t \in {"Favourates", "RecentlyPlayed"}
          \/ /\ pre.active = "Artistbar"
             /\ pre.filled_source[3].t \in {"Followings", "RecentlyPlayed"}
          \/ pre.active \in {"Sidebar", "Helpbar"}
    \/ Handled("Esc") /\ pre.active # "Searchbar"
    \/ /\ Handled("Enter")
       /\ \/ pre.active = "Playlistbar" /\ pre.playlistbar = <<>>
          \/ pre.active = "Artistbar" /\ pre.artistbar = <<>>
          \/ pre.active = "Helpbar"

\* C13: paging a panel whose source is an unimplemented feed, paging with
\* the focus on the sidebar or the help bar, Esc outside the search bar and
\* Enter on an empty playlist / artist panel or on the help bar change no
\* field of the shared state and call no notify_all.
C13_SilentNoOps == LogicalNoOp => Silent

\* p on a music panel that shows an artist's tracks.
C13_Witness ==
    /\ PagingKey
    /\ pre.active = "Musicbar" /\ pre.filled_source[1].t = "Artist"
    /\ pre.playlistbar = <<>> /\ pre.artistbar # <<>>
    /\ Silent

\* ? pressed outside the search bar.
HelpPressed ==
    key.code = "Char" /\ key.ch = HELP_SH_KEY /\ pre.active # "Searchbar"
\* n or p pressed on the playlist panel while it lists an artist's playlists.
ArtistPlaylistsPaged ==
    /\ key.code = "Char" /\ key.ch \in {NEXT_SH_KEY, PREV_SH_KEY} /\ ~key.ctrl
    /\ pre.active = "Playlistbar" /\ pre.filled_source[2].t = "Artist"

\* C14: ? outside the search bar, and n / p on a playlist panel whose source
\* is Artist(id), end in the abort of the input thread, never in a return, and
\* the aborted handler has changed no field of the shared state (and notified
\* nobody).
C14_FailLoudly ==
    ((HelpPressed \/ ArtistPlaylistsPaged) /\ Settled) =>
        /\ pc = Panicked
        /\ state = pre
        /\ notified = 0

\* The abort of handle_page_nav on an artist's playlists; the guard it held
\* leaves the Mutex poisoned.
C14_Witness ==
    /\ ArtistPlaylistsPaged /\ pc = Panicked
    /\ pre.playlistbar = <<>> /\ pre.artistbar # <<>>
    /\ poisoned
    /\ state = pre

\* f is one value of ui::FillFetch: one variant with its own payload.
IsRequest(f) ==
    f = CASE f.t = "None"     -> FetchNone
          [] f.t = "Trending" -> FetchTrending(f.page)
          [] f.t = "Playlist" -> FetchPlaylist
          [] f.t = "Search"   -> FetchSearch(f.query, f.pages)
          [] OTHER            -> <<>>

\* The direction n and p page in.
PagingDir == IF key.ch = NEXT_SH_KEY THEN "Next" ELSE "Prev"

\* The request the handled key composes from the state it was pressed in;
\* None when the key composes no request.
Composed ==
    LET page(i) == get_page(pre.fetched_page[i], PagingDir)
        only(i) == [j \in 1 .. 3 |-> IF j = i THEN Some(page(i)) ELSE None]
    IN  CASE Handled("Enter") /\ pre.active = "Searchbar" ->
                Some(FetchSearch(Trim(pre.search[1]), <<Some(0), Some(0), Some(0)>>))
          [] /\ Handled("Enter") /\ pre.active = "Sidebar" /\ pre.sidebar # None
             /\ SidebarOptionOf(Unwrap(pre.sidebar)) = "Trending" ->
                Some(FetchTrending(0))
          [] Handled("Enter") /\ pre.active = "Playlistbar" /\ pre.playlistbar # <<>> ->
                Some(FetchPlaylist)
          [] PagingKey /\ pre.active = "Musicbar" /\ pre.filled_source[1].t = "Trending" ->
                Some(FetchTrending(page(MIDDLE_MUSIC_INDEX)))
          [] PagingKey /\ pre.active = "Musicbar" /\ pre.filled_source[1].t = "Playlist" ->
                Some(FetchPlaylist)
          [] PagingKey /\ pre.active = "Musicbar" /\ pre.filled_source[1].t = "Search" ->
                Some(FetchSearch(pre.search[2], only(MIDDLE_MUSIC_INDEX)))
          [] PagingKey /\ pre.active = "Playlistbar" /\ pre.filled_source[2].t = "Search" ->
                Some(FetchSearch(pre.search[2], only(MIDDLE_PLAYLIST_INDEX)))
          [] PagingKey /\ pre.active = "Artistbar" /\ pre.filled_source[3].t = "Search" ->
                Some(FetchSearch(pre.search[2], only(MIDDLE_ARTIST_INDEX)))
          [] OTHER -> None

\* C15: to_fetch is one request value at every instant, and a key that
\* composes a request leaves exactly that request in it, whatever request was
\* outstanding: the earlier one is neither queued nor merged.
C15_LastWriterWins ==
    /\ IsRequest(state.to_fetch)
    /\ (AtRet /\ Composed # None) => state.to_fetch = Unwrap(Composed)

\* A search committed over an unserved trending request, which is lost.
C15_Witness ==
    /\ Handled("Enter") /\ pre.active = "Searchbar"
    /\ pre.to_fetch.t = "Trending"
    /\ state.to_fetch.t = "Search"

\* Enter pressed with the focus on the sidebar and its Search row selected.
SearchRowEntered ==
    /\ Handled("Enter") /\ pre.active = "Sidebar" /\ pre.sidebar # None
    /\ SidebarOptionOf(Unwrap(pre.sidebar)) = "Search"

\* C16: Enter on the sidebar's Search row moves the focus to the search bar
\* and notifies once; it issues no fetch: to_fetch, fetched_page,
\* filled_source, both search strings and the rows of the three panels (and
\* every other field) are as before.
C16_SidebarSearch ==
    SearchRowEntered =>
        /\ state = [pre EXCEPT !.active = "Searchbar"]
        /\ notified = 1

\* The Search row entered over filled panels and fetched pages.
C16_Witness ==
    /\ SearchRowEntered
    /\ state.active = "Searchbar"
    /\ pre.musicbar # <<>>
    /\ pre.fetched_page[MIDDLE_MUSIC_INDEX] # None
    /\ pre.filled_source[1] = Src("Trending")

\* A Char key whose handling is over (returned, left the loop or aborted).
CharSettled == Settled /\ key.code = "Char"

\* C17: a Char key pressed with the focus on the search bar, shortcut
\* character or not, with or without Ctrl, is appended to search.0 with one
\* notify_all and nothing else happens (the handler returns; focus, search.1,
\* to_fetch and every other field are as before, no player call); a Char key
\* pressed with the focus elsewhere leaves search.0 unchanged.
C17_CharRouting ==
    /\ (CharSettled /\ pre.active = "Searchbar") =>
          /\ AtRet
          /\ state = [pre EXCEPT !.search[1] = Append(@, key.ch)]
          /\ notified = 1
          /\ backend = <<>>
    /\ (CharSettled /\ pre.active # "Searchbar") =>
          state.search[1] = pre.search[1]

\* Ctrl+q typed after ? into the search bar.
C17_Witness ==
    /\ CharSettled /\ pre.active = "Searchbar"
    /\ key.ch = QUIT_SH_KEY /\ key.ctrl
    /\ pre.search[1] = <<HELP_SH_KEY>>
    /\ state.search[1] = <<HELP_SH_KEY, QUIT_SH_KEY>>

\* t is s without its last character (s itself when s is empty).
IsPopOf(t, s) ==
    IF s = <<>> THEN t = <<>> ELSE s = Append(t, s[Len(s)])

\* C18: Esc on the search bar empties the live query, keeps the committed
\* one and moves the focus to next(Searchbar); Backspace / Delete on the search
\* bar removes exactly the last character of the live query (nothing from the
\* empty query) and keeps the focus; Backspace / Delete elsewhere keeps both
\* queries and moves the focus to prev(focus).
C18_EscBackspace ==
    /\ (Handled("Esc") /\ pre.active = "Searchbar") =>
          /\ state.search[1] = <<>>
          /\ state.search[2] = pre.search[2]
          /\ state.active = WindowNext("Searchbar")
    /\ (Handled("Backspace") /\ pre.active = "Searchbar") =>
          /\ IsPopOf(state.search[1], pre.search[1])
          /\ state.search[2] = pre.search[2]
          /\ state.active = "Searchbar"
    /\ (Handled("Backspace") /\ pre.active # "Searchbar") =>
          /\ state.search = pre.search
          /\ state.active = WindowPrev(pre.active)

\* Backspace on a two-character query, over a committed query.
C18_Witness ==
    /\ Handled("Backspace") /\ pre.active = "Searchbar"
    /\ pre.search[1] = <<"a", " ">>
    /\ state.search[1] = <<"a">>
    /\ pre.search[2] = <<"a">>

\* advance_index on every list length up to MaxLimit: Next then Prev, and
\* Prev then Next, give the index back, and every result is an index.
IndexRoundTrip ==
    \A limit \in 1 .. MaxLimit : \A current \in 0 .. limit - 1 :
        /\ advance_index(advance_index(current, limit, "Next"), limit, "Prev") = current
        /\ advance_index(advance_index(current, limit, "Prev"), limit, "Next") = current
        /\ \A d \in HeadTo : advance_index(current, limit, d) \in 0 .. limit - 1

\* C19: advance_index round-trips (Next then Prev, Prev then Next) and stays
\* in [0, limit) for every limit > 0 and current in [0, limit); the sidebar
\* selection is always Some(i) with 0 <= i < SIDEBAR_LIST_COUNT, and Up / Down
\* on the sidebar move it by one with wrap-around.
C19_IndexRoundTrip ==
    /\ IndexRoundTrip
    /\ state.sidebar # None
    /\ Unwrap(state.sidebar) \in 0 .. SIDEBAR_LIST_COUNT - 1
    /\ (Handled("Down") /\ pre.active = "Sidebar") =>
          state.sidebar = Some(IF Unwrap(pre.sidebar) = SIDEBAR_LIST_COUNT - 1
                               THEN 0 ELSE Unwrap(pre.sidebar) + 1)
    /\ (Handled("Up") /\ pre.active = "Sidebar") =>
          state.sidebar = Some(IF Unwrap(pre.sidebar) = 0
                               THEN SIDEBAR_LIST_COUNT - 1 ELSE Unwrap(pre.sidebar) - 1)

\* Up on the first row of the sidebar wraps to the last one.
C19_Witness ==
    /\ Handled("Up") /\ pre.active = "Sidebar"
    /\ pre.sidebar = Some(0)
    /\ state.sidebar = Some(SIDEBAR_LIST_COUNT - 1)
    /\ notified = 1

\* The lists of at most MaxLen rows (rows may repeat).
Lists == UNION {[1 .. n -> {Row(i) : i \in Ids}] : n \in 0 .. MaxLen}
\* How often row x occurs in list l.
Count(l, x) == Cardinality({i \in 1 .. Len(l) : l[i] = x})
SameRows(l, m) == Len(l) = Len(m) /\ \A i \in Ids : Count(l, Row(i)) = Count(m, Row(i))

\* advance_list on every list: Next then Prev restores a non-empty list, each
\* call returning true and keeping the rows; the empty list and the direction
\* Initial return false and keep the list.
ListRoundTrip ==
    \A L \in Lists :
        LET n == advance_list(L, "Next")
            p == advance_list(L, "Prev")
        IN  /\ L # <<>> =>
                 /\ n.ok /\ p.ok
                 /\ SameRows(n.list, L) /\ SameRows(p.list, L)
                 /\ advance_list(n.list, "Prev") = [ok |-> TRUE, list |-> L]
                 /\ advance_list(p.list, "Next") = [ok |-> TRUE, list |-> L]
            /\ L = <<>> => (n = [ok |-> FALSE, list |-> L] /\ p = [ok |-> FALSE, list |-> L])
            /\ advance_list(L, "Initial") = [ok |-> FALSE, list |-> L]

\* The panel behind a window ("" for the windows without a list of rows).
PanelOf(w) ==
    CASE w = "Musicbar"    -> "musicbar"
      [] w = "Playlistbar" -> "playlistbar"
      [] w = "Artistbar"   -> "artistbar"
      [] OTHER             -> ""

\* Up or Down handled with the focus on a panel.
PanelKey == (Handled("Up") \/ Handled("Down")) /\ PanelOf(pre.active) # ""

\* C20: advance_list round-trips on every non-empty list, returning true and
\* keeping rows and length, and returns false without a change on the empty
\* list and for Initial; Up / Down on an empty panel change nothing and do not
\* notify, on a filled panel they rotate it by one and notify once.
C20_ListRoundTrip ==
    /\ PanelKey =>
          LET panel == PanelOf(pre.active)
              L     == pre[panel]
          IN  IF L = <<>> THEN state = pre /\ notified = 0
              ELSE /\ state = [pre EXCEPT ![panel] = IF key.code = "Down"
                                                    THEN Append(Tail(L), Head(L))
                                                    ELSE <<L[Len(L)]>> \o SubSeq(L, 1, Len(L) - 1)]
                   /\ notified = 1
    /\ ListRoundTrip

\* Up on an empty playlist panel beside a filled music panel.
C20_Witness ==
    /\ Handled("Up") /\ pre.active = "Playlistbar"
    /\ pre.playlistbar = <<>> /\ pre.musicbar # <<>>
    /\ state = pre /\ notified = 0

\* The page a request composed in direction d asks for when the panel's
\* counter is fp: 0 for a counter not yet set and for Initial, p + 1 for Next
\* from Some(p).
PageAsked(fp, d) ==
    IF fp = None THEN 0
    ELSE IF d = "Next" THEN fp[1] + 1
    ELSE IF d = "Prev" THEN (IF fp[1] = 0 THEN 0 ELSE fp[1] - 1)
    ELSE 0

\* The input thread leaves the program point it is at.
InputStep == pc' # pc

\* fill_trending_music writes the request and leaves every counter alone, so
\* the request is also the one the same key composes from the state it leaves.
TrendingComposed ==
    (At("fill_trending_music", "lock") /\ InputStep) =>
        /\ state'.fetched_page = state.fetched_page
        /\ state'.to_fetch =
              FetchTrending(PageAsked(state'.fetched_page[MIDDLE_MUSIC_INDEX], dir))

\* Both critical sections of fill_search! leave every counter alone; the
\* first one asks, for each column handed over, the page after its counter.
SearchComposed ==
    (pc[1] \in FillSearchVariants /\ pc[2] \in {"lock", "lock2"} /\ InputStep) =>
        /\ state'.fetched_page = state.fetched_page
        /\ pc[2] = "lock" =>
              /\ state'.to_fetch.t = "Search"
              /\ \A i \in 1 .. 3 :
                    state'.to_fetch.pages[i] =
                       IF i \in FillSearchCols(pc[1])
                       THEN Some(PageAsked(state'.fetched_page[i], dir))
                       ELSE None

\* fill_music_from_playlist tests the source under the guard it writes under:
\* on Playlist(_) it moves the counter of the music panel itself and issues
\* the request; on any other source it writes and notifies nothing.
PlaylistComposed ==
    (At("fill_music_from_playlist", "lock") /\ InputStep) =>
        IF state.filled_source[1].t = "Playlist"
        THEN /\ state'.fetched_page =
                   [state.fetched_page EXCEPT ![MIDDLE_MUSIC_INDEX] =
                       Some(PageAsked(state.fetched_page[MIDDLE_MUSIC_INDEX], dir))]
             /\ state'.to_fetch = FetchPlaylist
             /\ notified' = notified + 1
        ELSE /\ state' = state
             /\ notified' = notified

\* C21: composing a Trending or a Search request never modifies
\* fetched_page, so n pressed again with no worker step in between asks for
\* the same page (0 from None, p + 1 from Some(p)); paging a music panel
\* filled from a playlist writes fetched_page[MUSIC] = Some(page) itself, so
\* every n moves it from Some(p) to Some(p + 1), and the Playlist request is
\* issued only if filled_source.0 is Playlist(_) under the guard of the write.
C21_PageCounterOwnership ==
    [][TrendingComposed /\ SearchComposed /\ PlaylistComposed]_vars

\* n pressed a second time on a playlist's music panel, the first request not
\* yet served: the counter has moved from Some(0) through Some(1) to Some(2).
C21_Witness ==
    /\ PagingKey /\ key.ch = NEXT_SH_KEY
    /\ pre.active = "Musicbar" /\ pre.filled_source[1].t = "Playlist"
    /\ pre.to_fetch = FetchPlaylist
    /\ pre.fetched_page[MIDDLE_MUSIC_INDEX] = Some(1)
    /\ state.fetched_page[MIDDLE_MUSIC_INDEX] = Some(2)
    /\ state.to_fetch = FetchPlaylist
====
